---------------------------- MODULE Spec2Model ----------------------------
(***************************************************************************)
(* pkg/github/issues.go of grafana/github-datasource.                      *)
(*                                                                         *)
(* GetIssuesInRange builds a search filter, walks the pages of a           *)
(* cursor-paginated GraphQL search and accumulates the issues;             *)
(* Issues.Frames reshapes the accumulated list into a data frame of eight  *)
(* columns.                                                                *)
(*                                                                         *)
(* One invocation of GetIssuesInRange is a state machine whose steps are   *)
(* delimited by its only suspension point, the blocking client.Query call: *)
(*   "start"    -- the caller holds ctx, opts, from, to; not yet called    *)
(*   "query"    -- a client.Query call is outstanding                      *)
(*   "returned" -- GetIssuesInRange has returned (ret holds both results)  *)
(*   "framed"   -- the caller has converted the returned list with Frames  *)
(***************************************************************************)
EXTENDS Integers, Sequences, FiniteSets, TLC

VARIABLES
    pc,         \* position of the invocation (see above)
    opts,       \* models.ListIssuesOptions argument
    from,       \* time.Time argument
    to,         \* time.Time argument
    ctxDone,    \* whether the ctx argument has been cancelled
    variables,  \* the map[string]interface{} handed to client.Query
    issues,     \* the accumulation list
    calls,      \* what the transport received, one record per client.Query call
    responses,  \* what the transport answered, one record per completed call
    ret,        \* the (Issues, error) pair returned by GetIssuesInRange
    frames,     \* the data.Frames built from the returned list
    server,     \* the server behind the transport: "finite" or "endless" result sets
    inv,        \* concurrent invocations: each one's position, calls, responses and result
    locals      \* concurrent invocations: the variables map and issues list of each activation

vars == <<pc, opts, from, to, ctxDone, variables, issues, calls, responses, ret, frames,
         server, inv, locals>>

---------------------------------------------------------------------------
(* Strings are TLA+ strings: \o concatenates, Len and SubSeq index them.   *)

Digit(d) == SubSeq("0123456789", d + 1, d + 1)

\* %02d of a number in 0..99
Pad2(n) == Digit(n \div 10) \o Digit(n % 10)

\* %04d of a number in 0..9999
Pad4(n) == Pad2(n \div 100) \o Pad2(n % 100)

\* strings.Join(elems, sep)
RECURSIVE Join(_, _)
Join(elems, sep) ==
    IF Len(elems) = 0 THEN ""
    ELSE IF Len(elems) = 1 THEN elems[1]
    ELSE elems[1] \o sep \o Join(Tail(elems), sep)

---------------------------------------------------------------------------
(* time.Time: the wall-clock reading in the value's own zone, and the      *)
(* zone's offset east of UTC in minutes.                                   *)

MkTime(Y, Mo, D, h, mi, s, off) ==
    [year |-> Y, month |-> Mo, day |-> D, hour |-> h, min |-> mi, sec |-> s, nsec |-> 0,
     offset |-> off]

\* the zero value of time.Time: January 1, year 1, 00:00:00.000000000 UTC
ZeroTime == MkTime(1, 1, 1, 0, 0, 0, 0)

\* the wall-clock reading, in a zone off minutes east of UTC (|off| < 24h),
\* of the instant January 1, year 1, 00:00:00 UTC
ZeroInstantAt(off) ==
    IF off >= 0
    THEN MkTime(1, 1, 1, off \div 60, off % 60, 0, off)
    ELSE MkTime(0, 12, 31, (1440 + off) \div 60, (1440 + off) % 60, 0, off)

\* Time.IsZero: whether t is the zero instant, whatever its zone
IsZero(t) == t = ZeroInstantAt(t.offset)

\* the "Z07:00" element of the layout
FormatZone(off) ==
    IF off = 0 THEN "Z"
    ELSE IF off > 0 THEN "+" \o Pad2(off \div 60) \o ":" \o Pad2(off % 60)
    ELSE "-" \o Pad2((0 - off) \div 60) \o ":" \o Pad2((0 - off) % 60)

\* t.Format(time.RFC3339), layout "2006-01-02T15:04:05Z07:00"
FormatRFC3339(t) ==
    Pad4(t.year) \o "-" \o Pad2(t.month) \o "-" \o Pad2(t.day) \o "T" \o
    Pad2(t.hour) \o ":" \o Pad2(t.min) \o ":" \o Pad2(t.sec) \o FormatZone(t.offset)

---------------------------------------------------------------------------
(* models.ListIssuesOptions and the search filter                          *)

\* *string: nil, or a pointer to a string
NilString == [isNil |-> TRUE]
StringPtr(s) == [isNil |-> FALSE, val |-> s]

\* models.IssueTimeField.String()
TimeFieldString(f) ==
    CASE f = "IssueTimeClosed" -> "closed"
      [] f = "IssueTimeCreated" -> "created"
      [] f = "IssueTimeUpdated" -> "updated"

\* the search slice of GetIssuesInRange, before the optional query is appended
SearchWrongOrder(o, f, t) ==
    << "is:issue",
       TimeFieldString(o.TimeField) \o ":" \o FormatRFC3339(f) \o ".." \o FormatRFC3339(t),
       "repo:" \o o.Owner \o "/" \o o.Repository >>

SearchBase(o, f, t) ==
    << "is:issue",
       "repo:" \o o.Owner \o "/" \o o.Repository,
       TimeFieldString(o.TimeField) \o ":" \o FormatRFC3339(f) \o ".." \o FormatRFC3339(t) >>

\* the search slice once opts.Query has been looked at
Search(o, f, t) ==
    IF ~o.Query.isNil THEN Append(SearchBase(o, f, t), o.Query.val) ELSE SearchBase(o, f, t)

\* the "cursor" variable: a nil *githubv4.String, or a githubv4.String
NilCursor == [isNil |-> TRUE]
Cursor(s) == [isNil |-> FALSE, val |-> s]

\* the variables map at its declaration
InitialVariables(o, f, t) == [cursor |-> NilCursor, query |-> Join(Search(o, f, t), " ")]


---------------------------------------------------------------------------
(* Issue, the search nodes and errors                                      *)

MkIssue(number, title, closed, createdAt, closedAt, login, company, owner, name) ==
    [Number |-> number, Title |-> title, ClosedAt |-> closedAt, CreatedAt |-> createdAt,
     Closed |-> closed,
     Author |-> [User |-> [Login |-> login, Company |-> company]],
     Repository |-> [Owner |-> [Login |-> owner], Name |-> name]]

\* the zero value of Issue
ZeroIssue == MkIssue(0, "", FALSE, ZeroTime, ZeroTime, "", "", "", "")

\* error values: nil, an error of the transport, and pkg/errors' withStack
NoError == [isNil |-> TRUE]
TransportError(msg) == [isNil |-> FALSE, kind |-> "transport", msg |-> msg]

\* errors.WithStack(err): nil for nil, else err annotated with the stack of the
\* calling goroutine at the call (the same program counters on every iteration)
WithStackLosingCause(err) ==
    IF err.isNil THEN err
    ELSE [isNil |-> FALSE, kind |-> "transport", msg |-> "search failed"]

WithStack(err) ==
    IF err.isNil THEN err
    ELSE [isNil |-> FALSE, kind |-> "withStack", cause |-> err,
          stack |-> <<"github.GetIssuesInRange">>]

\* errors.Cause(err): the innermost error of a chain of wrappers
RECURSIVE Cause(_)
Cause(err) == IF ~err.isNil /\ err.kind = "withStack" THEN Cause(err.cause) ELSE err

\* err.Error(): withStack prints its cause's message
RECURSIVE ErrorString(_)
ErrorString(err) == IF err.kind = "withStack" THEN ErrorString(err.cause) ELSE err.msg

\* a node as the server sends it: its type and, for an Issue, the fields asked for
IssueNode(i) == [typename |-> "Issue", Issue |-> i]
OtherNode == [typename |-> "PullRequest"]

\* a node as decoded into QuerySearchIssues.Search.Nodes: the `... on Issue`
\* fields are filled in for an Issue and left at their zero value otherwise
DecodeNode(n) == IF n.typename = "Issue" THEN [Issue |-> n.Issue] ELSE [Issue |-> ZeroIssue]

\* q after a successful client.Query that received response r
DecodeQuery(r) ==
    [Search |-> [Nodes |-> [i \in 1..Len(r.Search.Nodes) |-> DecodeNode(r.Search.Nodes[i])],
                 PageInfo |-> r.Search.PageInfo]]

---------------------------------------------------------------------------
(* Issues.Frames                                                           *)

\* *time.Time: nil, or a pointer to a copy of a time
NilTime == [isNil |-> TRUE]
TimePtr(t) == [isNil |-> FALSE, val |-> t]

\* data.NewField(name, nil, <empty slice>)
NewField(name) == [Name |-> name, vals |-> <<>>]

\* data.NewFrame("issues", ...) with the eight fields, in order
NewFrame ==
    [Name |-> "issues",
     Fields |-> << NewField("title"), NewField("author"), NewField("author_company"),
                   NewField("repo"), NewField("number"), NewField("closed"),
                   NewField("created_at"), NewField("closed_at") >>]

\* frame.AppendRow(vals...): one value appended to each field, in field order
AppendRow(frame, row) ==
    [frame EXCEPT !.Fields =
        [i \in 1..Len(frame.Fields) |->
            [frame.Fields[i] EXCEPT !.vals = Append(frame.Fields[i].vals, row[i])]]]

\* the closedAt pointer of one iteration of the loop
ClosedAtAlwaysSet(v) == TimePtr(v.ClosedAt)

ClosedAtByFlag(v) == IF v.Closed THEN TimePtr(v.ClosedAt) ELSE NilTime

ClosedAt(v) == IF ~IsZero(v.ClosedAt) THEN TimePtr(v.ClosedAt) ELSE NilTime

\* the arguments of frame.AppendRow for issue v
RowRepoNameOnly(v) ==
    << v.Title, v.Author.User.Login, v.Author.User.Company,
       v.Repository.Name,
       v.Number, v.Closed, v.CreatedAt, ClosedAt(v) >>

Row(v) ==
    << v.Title, v.Author.User.Login, v.Author.User.Company,
       v.Repository.Owner.Login \o "/" \o v.Repository.Name,
       v.Number, v.Closed, v.CreatedAt, ClosedAt(v) >>

\* the loop over c, from a frame that holds the rows of the issues before
RECURSIVE AppendRows(_, _)
AppendRows(frame, c) ==
    IF Len(c) = 0 THEN frame ELSE AppendRows(AppendRow(frame, Row(Head(c))), Tail(c))

\* Issues.Frames
Frames(c) == << AppendRows(NewFrame, c) >>

---------------------------------------------------------------------------
(* The loop body of GetIssuesInRange                                       *)

\* the page size of the search: `first: 100` in the tag of QuerySearchIssues.Search
PageSize == 100

\* is: one Issue per node of the page, at the node's index
PageIssues(nodes) == [i \in 1..Len(nodes) |-> nodes[i].Issue]

\* issues = append(issues, is...)
AppendIssuesInFront(acc, is) == is \o acc

AppendIssuesForgotten(acc, is) == acc

AppendIssues(acc, is) == acc \o is

\* the break condition
LoopEndsNever(pageInfo) == FALSE

LoopEndsAfterOnePage(pageInfo) == TRUE

LoopEnds(pageInfo) == ~pageInfo.HasNextPage

\* variables["cursor"] = q.Search.PageInfo.EndCursor
KeepCursor(v, pageInfo) == v

SetCursorAsQuery(v, pageInfo) == [v EXCEPT !.query = pageInfo.EndCursor]

SetCursor(v, pageInfo) == [v EXCEPT !.cursor = Cursor(pageInfo.EndCursor)]

\* return nil, errors.WithStack(err)
ReturnPartialOnError(acc, err) == [issues |-> acc, err |-> WithStack(err)]

ReturnOnError(acc, err) == [issues |-> <<>>, err |-> WithStack(err)]

\* return issues, nil
ReturnIssues(acc) == [issues |-> acc, err |-> NoError]

\* the arguments of one client.Query(ctx, q, variables) call, as the transport
\* sees them
QueryCallWithoutCtx(v) ==
    [ctx |-> "context.Background()", first |-> PageSize, cursor |-> v.cursor, query |-> v.query]

QueryCall(v) == [ctx |-> "ctx", first |-> PageSize, cursor |-> v.cursor, query |-> v.query]

---------------------------------------------------------------------------
(* Bounds and the values the inputs are drawn from                         *)

\* the most pages the server reports: its answer to call MaxCalls has no next page
MaxCalls == 3

\* the longest list handed to Issues.Frames on its own
MaxIssues == 2

\* the calls an endless server is followed for: it answers no later call
MaxLoopCalls == 3

T1 == MkTime(2020, 8, 19, 0, 0, 0, 0)
T2 == MkTime(2020, 8, 26, 13, 5, 9, 120)
T3 == MkTime(2021, 1, 1, 23, 59, 59, 0 - 330)

Times == {ZeroTime, T1, T2, T3}

Issue1 == MkIssue(1, "Panel crashes", TRUE, T1, T2, "alice", "Grafana Labs", "grafana", "grafana")
Issue2 == MkIssue(2, "Add dark mode", FALSE, T2, ZeroTime, "bob", "", "acme", "widgets")

\* the pages' node lists
NodeLists ==
    { <<>>,
      << IssueNode(Issue1) >>,
      << IssueNode(Issue2), IssueNode(Issue1) >>,
      << IssueNode(Issue1), OtherNode, IssueNode(Issue2) >>,
      << OtherNode >> }

EndCursors == {"Y3Vyc29yOjEwMA==", "Y3Vyc29yOjIwMA=="}

TransportErrors == {TransportError("401 Unauthorized"), TransportError("API rate limit exceeded")}

\* ctx.Err() once ctx is cancelled
Canceled == TransportError("context canceled")

\* the successful responses to the n-th call
Pages(n) ==
    { [err |-> NoError,
       Search |-> [Nodes |-> ns, PageInfo |-> [HasNextPage |-> h, EndCursor |-> c]]] :
        ns \in NodeLists, h \in {b \in BOOLEAN : b => n < MaxCalls}, c \in EndCursors }

\* ctx.Done() is closed: only the caller's ctx is ever cancelled
Done(ctx, cancelled) == ctx = "ctx" /\ cancelled

\* the responses of a server whose every page has a next page
EndlessPages(n) ==
    { [err |-> NoError,
       Search |-> [Nodes |-> ns, PageInfo |-> [HasNextPage |-> TRUE, EndCursor |-> c]]] :
        ns \in {l \in NodeLists : n <= MaxLoopCalls}, c \in EndCursors }

\* client.Query: the outcomes of the n-th call. A call whose context is
\* cancelled fails with the context's error; any other call fails with an
\* error of the transport or fills q with a page. Behind an endless server
\* every call that is not cancelled succeeds with a page that has a next page.
ClientQuery(call, cancelled, n) ==
    IF Done(call.ctx, cancelled) THEN {[err |-> Canceled]}
    ELSE IF server = "endless" THEN EndlessPages(n)
    ELSE Pages(n) \cup {[err |-> e] : e \in TransportErrors}

\* the arguments of an invocation
MkOpts(owner, repository, timeField, query) ==
    [Owner |-> owner, Repository |-> repository, TimeField |-> timeField, Query |-> query]

Invocation(o, f, t) == [opts |-> o, from |-> f, to |-> t]

Invocations ==
    { Invocation(MkOpts("grafana", "grafana", "IssueTimeCreated", NilString), T1, T2),
      Invocation(MkOpts("acme", "widgets", "IssueTimeClosed", StringPtr("label:bug")), T1, T3) }

Queries ==
    { NilString, StringPtr(""), StringPtr("label:bug"), StringPtr("is:open sort:created-asc"),
      StringPtr("repo:acme/widgets"),
      StringPtr("created:2020-08-19T00:00:00Z..2020-08-26T13:05:09+02:00") }

AllInvocations ==
    { Invocation(MkOpts(o, r, tf, qy), f, t) :
        o \in {"grafana", "acme", ""}, r \in {"grafana", "widgets"},
        tf \in {"IssueTimeClosed", "IssueTimeCreated", "IssueTimeUpdated"},
        qy \in Queries, f \in Times, t \in Times }

Titles == <<"Panel crashes", "Add dark mode">>
Logins == <<"alice", "bob">>
Companies == <<"Grafana Labs", "">>
Owners == <<"grafana", "acme">>
Names == <<"grafana", "widgets">>

IssuePool ==
    { MkIssue(n, Titles[n], closed, createdAt, closedAt, Logins[n], Companies[n], Owners[n],
              Names[n]) :
        n \in {1, 2}, closed \in BOOLEAN, createdAt \in {T1},
        closedAt \in {ZeroTime, T2, ZeroInstantAt(60)} } \cup {ZeroIssue}

IssueLists == UNION { [1..n -> IssuePool] : n \in 0..MaxIssues }

---------------------------------------------------------------------------
(* The state machine                                                       *)

NoVariables == [cursor |-> NilCursor, query |-> ""]
NoReturn == [issues |-> <<>>, err |-> NoError]

\* the invocations that run concurrently
Procs == {1, 2}

\* an invocation not yet called, and an activation not yet entered
NoInvocation == [pc |-> "start", calls |-> <<>>, responses |-> <<>>, ret |-> NoReturn]
NoLocals == [variables |-> NoVariables, issues |-> <<>>]

InitWith(invocations, servers) ==
    /\ pc = "start"
    /\ server \in servers
    /\ \E in \in invocations : opts = in.opts /\ from = in.from /\ to = in.to
    /\ ctxDone = FALSE
    /\ variables = NoVariables
    /\ issues = <<>>
    /\ calls = <<>>
    /\ responses = <<>>
    /\ ret = NoReturn
    /\ frames = <<>>
    /\ inv = [p \in Procs |-> NoInvocation]
    /\ locals = [p \in Procs |-> NoLocals]

InitOver(invocations) == InitWith(invocations, {"finite"})

Init == InitOver(Invocations)

\* GetIssuesInRange up to its first client.Query call
Start ==
    /\ pc = "start"
    /\ variables' = InitialVariables(opts, from, to)
    /\ issues' = <<>>
    /\ calls' = Append(calls, QueryCall(variables'))
    /\ pc' = "query"
    /\ UNCHANGED <<opts, from, to, ctxDone, responses, ret, frames, server, inv, locals>>

\* client.Query returns an error: GetIssuesInRange returns
QueryFails ==
    /\ pc = "query"
    /\ \E r \in ClientQuery(calls[Len(calls)], ctxDone, Len(calls)) :
        /\ ~r.err.isNil
        /\ responses' = Append(responses, r)
        /\ ret' = ReturnOnError(issues, r.err)
    /\ pc' = "returned"
    /\ UNCHANGED <<opts, from, to, ctxDone, variables, issues, calls, frames, server, inv, locals>>

\* client.Query returns a page: the rest of the loop body, then either the
\* return or the next client.Query call
QuerySucceeds ==
    /\ pc = "query"
    /\ \E r \in ClientQuery(calls[Len(calls)], ctxDone, Len(calls)) :
        /\ r.err.isNil
        /\ responses' = Append(responses, r)
        /\ LET q == DecodeQuery(r)
               is == PageIssues(q.Search.Nodes)
               acc == AppendIssues(issues, is)
           IN /\ issues' = acc
              /\ IF LoopEnds(q.Search.PageInfo)
                 THEN /\ ret' = ReturnIssues(acc)
                      /\ pc' = "returned"
                      /\ UNCHANGED <<variables, calls>>
                 ELSE /\ variables' = SetCursor(variables, q.Search.PageInfo)
                      /\ calls' = Append(calls, QueryCall(variables'))
                      /\ pc' = "query"
                      /\ UNCHANGED ret
    /\ UNCHANGED <<opts, from, to, ctxDone, frames, server, inv, locals>>

\* the caller cancels ctx
Cancel ==
    /\ pc \in {"start", "query"}
    /\ ~ctxDone
    /\ ctxDone' = TRUE
    /\ UNCHANGED <<pc, opts, from, to, variables, issues, calls, responses, ret, frames, server,
                   inv, locals>>

\* the caller converts the returned list
ToFrames ==
    /\ pc = "returned"
    /\ ret.err.isNil
    /\ frames' = Frames(ret.issues)
    /\ pc' = "framed"
    /\ UNCHANGED <<opts, from, to, ctxDone, variables, issues, calls, responses, ret, server,
                   inv, locals>>

Next == Start \/ QueryFails \/ QuerySucceeds \/ Cancel \/ ToFrames

Spec == Init /\ [][Next]_vars

\* the search filter of every invocation of AllInvocations
InitFilter == InitOver(AllInvocations)

NextFilter == Start

SpecFilter == InitFilter /\ [][NextFilter]_vars

\* Issues.Frames on every list of IssueLists
InitFrames ==
    /\ pc = "returned"
    /\ server = "finite"
    /\ \E in \in Invocations : opts = in.opts /\ from = in.from /\ to = in.to
    /\ ctxDone = FALSE
    /\ variables = NoVariables
    /\ issues = <<>>
    /\ calls = <<>>
    /\ responses = <<>>
    /\ \E c \in IssueLists : ret = ReturnIssues(c)
    /\ frames = <<>>
    /\ inv = [p \in Procs |-> NoInvocation]
    /\ locals = [p \in Procs |-> NoLocals]

NextFrames == ToFrames

SpecFrames == InitFrames /\ [][NextFrames]_vars

---------------------------------------------------------------------------
(* What the claims speak of                                                *)

Last(seq) == seq[Len(seq)]

\* the number of positions at which the non-empty text sub occurs in s
Occurrences(sub, s) ==
    Cardinality({i \in 1..(Len(s) - Len(sub) + 1) : SubSeq(s, i, i + Len(sub) - 1) = sub})

Returned == pc \in {"returned", "framed"}

\* a response that ends the loop: a failure, or a page with no next page
Terminal(r) == ~r.err.isNil \/ ~r.Search.PageInfo.HasNextPage

\* the items of a page, in the order the server sent them
PageItems(r) == [i \in 1..Len(r.Search.Nodes) |-> DecodeNode(r.Search.Nodes[i]).Issue]

\* the items of the pages rs, page after page
RECURSIVE AllItems(_)
AllItems(rs) ==
    IF Len(rs) = 0 THEN <<>>
    ELSE AllItems(SubSeq(rs, 1, Len(rs) - 1)) \o PageItems(Last(rs))

\* the sum of the pages' item counts
RECURSIVE ItemCount(_)
ItemCount(rs) ==
    IF Len(rs) = 0 THEN 0
    ELSE ItemCount(SubSeq(rs, 1, Len(rs) - 1)) + Len(Last(rs).Search.Nodes)

\* every response was a page, and the last one is the first with no next page
Exhausted ==
    /\ Len(responses) > 0
    /\ \A k \in 1..Len(responses) : responses[k].err.isNil
    /\ ~Last(responses).Search.PageInfo.HasNextPage

\* the last response is a failure
Failed == Len(responses) > 0 /\ ~Last(responses).err.isNil

\* C1: once the server has answered with pages up to the first page without a
\* next page, GetIssuesInRange has returned, without error, the concatenation
\* of the pages' items in call order and server order: as many issues as the
\* pages held items, none dropped, repeated or moved.
C1_Concatenation ==
    Exhausted =>
        /\ Returned
        /\ ret.err.isNil
        /\ ret.issues = AllItems(responses)
        /\ Len(ret.issues) = ItemCount(responses)

C1_Witness ==
    /\ Exhausted
    /\ pc = "returned"
    /\ Len(responses) = 3
    /\ \A k \in 1..3 : Len(responses[k].Search.Nodes) > 0
    /\ responses[1].Search.Nodes # responses[2].Search.Nodes

\* C2: the first call carries the nil cursor, and call n+1 carries the
\* endCursor of the response to call n.
C2_CursorPropagation ==
    /\ Len(calls) >= 1 => calls[1].cursor = NilCursor
    /\ \A n \in 1..(Len(calls) - 1) :
        calls[n + 1].cursor = Cursor(responses[n].Search.PageInfo.EndCursor)

C2_Witness ==
    /\ Len(calls) = 3
    /\ calls[2].cursor # calls[3].cursor

\* C3: when a call fails, GetIssuesInRange returns an error and no issue,
\* whatever the earlier pages held, and the caller never gets a list to convert.
C3_FailureAtomicity ==
    Failed =>
        /\ pc = "returned"
        /\ ~ret.err.isNil
        /\ Len(ret.issues) = 0
        /\ frames = <<>>

C3_Witness ==
    /\ Failed
    /\ Len(responses) = 2
    /\ Len(responses[1].Search.Nodes) > 0
    /\ Len(issues) > 0

\* C4: the calls made are exactly those up to the first response that fails
\* or has no next page: no response before the last one ends the loop, a call
\* is outstanding only while none has, and once one has there are as many
\* calls as responses.
C4_CallCount ==
    /\ \A k \in 1..(Len(responses) - 1) : ~Terminal(responses[k])
    /\ pc = "start" => Len(calls) = 0 /\ Len(responses) = 0
    /\ pc = "query" =>
        /\ Len(calls) = Len(responses) + 1
        /\ \A k \in 1..Len(responses) : ~Terminal(responses[k])
    /\ Returned => Len(calls) = Len(responses) /\ Terminal(Last(responses))

C4_Witness ==
    /\ pc = "returned"
    /\ Len(calls) = 1
    /\ responses[1].err.isNil
    /\ ~responses[1].Search.PageInfo.HasNextPage

\* the nodes of the pages rs that are issues
RECURSIVE IssueNodeCount(_)
IssueNodeCount(rs) ==
    IF Len(rs) = 0 THEN 0
    ELSE IssueNodeCount(SubSeq(rs, 1, Len(rs) - 1)) +
         Cardinality({i \in 1..Len(Last(rs).Search.Nodes) :
                        Last(rs).Search.Nodes[i].typename = "Issue"})

\* C5: a node that is not an issue is skipped without error: the returned
\* list holds one record for each issue node and none for any other node.
C5_NonIssueNodesSkipped ==
    (Returned /\ Exhausted) =>
        /\ ret.err.isNil
        /\ Len(ret.issues) = IssueNodeCount(responses)

\* C6: a call outstanding under a cancelled context ends the operation at its
\* next step with the cancellation error, no issues and no further call; and
\* every call carries the caller's context.
C6_Cancellation ==
    /\ [](\A n \in 1..Len(calls) : calls[n].ctx = "ctx")
    /\ [][(pc = "query" /\ ctxDone) =>
            /\ pc' = "returned"
            /\ Last(responses') = [err |-> Canceled]
            /\ ~ret'.err.isNil
            /\ Cause(ret'.err) = Canceled
            /\ Len(ret'.issues) = 0
            /\ calls' = calls]_vars

C6_Witness ==
    /\ ctxDone
    /\ pc = "returned"
    /\ Len(calls) = 2
    /\ Len(issues) > 0
    /\ Cause(ret.err) = Canceled

\* the tokens the filter of the invocation is to hold
RepoToken == "repo:" \o opts.Owner \o "/" \o opts.Repository
TimeToken ==
    TimeFieldString(opts.TimeField) \o ":" \o FormatRFC3339(from) \o ".." \o FormatRFC3339(to)

\* the filter as the single-space join of the marker, the two tokens and, if
\* and only if there is one, the free text
ExpectedFilter ==
    "is:issue" \o " " \o RepoToken \o " " \o TimeToken \o
    (IF opts.Query.isNil THEN "" ELSE " " \o opts.Query.val)

\* the filter reaches the transport as built
FilterSent == variables.query = ExpectedFilter /\ calls[1].query = ExpectedFilter

\* whether text holds one of the two tokens
HoldsToken(text) == Occurrences(RepoToken, text) > 0 \/ Occurrences(TimeToken, text) > 0

\* C7 as stated: the filter is that join, and it holds exactly one repo token
\* and exactly one time-range token.
C7_ExactlyOneOfEachToken ==
    pc = "query" =>
        /\ FilterSent
        /\ Occurrences(RepoToken, variables.query) = 1
        /\ Occurrences(TimeToken, variables.query) = 1

\* C7, amended: the filter is that join; it holds each of the two tokens at
\* least once, and exactly once unless the owner, the repository or the free
\* text itself holds one of them.
C7_FilterComposition ==
    pc = "query" =>
        /\ FilterSent
        /\ Occurrences(RepoToken, variables.query) >= 1
        /\ Occurrences(TimeToken, variables.query) >= 1
        /\ (/\ ~HoldsToken(opts.Owner)
            /\ ~HoldsToken(opts.Repository)
            /\ opts.Query.isNil \/ ~HoldsToken(opts.Query.val))
           => /\ Occurrences(RepoToken, variables.query) = 1
              /\ Occurrences(TimeToken, variables.query) = 1

C7_Witness ==
    /\ pc = "query"
    /\ ~opts.Query.isNil
    /\ opts.Query.val = "is:open sort:created-asc"
    /\ from.offset # 0
    /\ variables.query = ExpectedFilter

\* the column of the frame with the given name
Column(name) ==
    LET f == frames[1].Fields
    IN  f[CHOOSE i \in 1..Len(f) : f[i].Name = name].vals

\* C8: in every row the closed_at cell is absent when the issue's closedAt is
\* the zero time and is the issue's closedAt when it is not; the created_at
\* cell is the issue's createdAt.
C8_ClosedAtNormalization ==
    pc = "framed" =>
        \A n \in 1..Len(ret.issues) :
            /\ n \in DOMAIN Column("closed_at") /\ n \in DOMAIN Column("created_at")
            /\ ret.issues[n].ClosedAt = ZeroTime => Column("closed_at")[n] = NilTime
            /\ ~IsZero(ret.issues[n].ClosedAt) =>
                    Column("closed_at")[n] = TimePtr(ret.issues[n].ClosedAt)
            /\ Column("closed_at")[n] \in {NilTime, TimePtr(ret.issues[n].ClosedAt)}
            /\ Column("created_at")[n] = ret.issues[n].CreatedAt

C8_Witness ==
    /\ pc = "framed"
    /\ Len(ret.issues) = 2
    /\ ret.issues[1].ClosedAt = ZeroTime /\ ~ret.issues[1].Closed
    /\ ret.issues[2].ClosedAt = T2
    /\ Column("closed_at") = <<NilTime, TimePtr(T2)>>

ColumnNames ==
    <<"title", "author", "author_company", "repo", "number", "closed", "created_at",
      "closed_at">>

\* C9: the frame has the eight columns, each with one cell per issue, and
\* the n-th row holds the n-th issue's title, author login, author company,
\* "<owner login>/<repository name>", number and closed flag.
C9_StructuralReshape ==
    pc = "framed" =>
        /\ Len(frames) = 1
        /\ [i \in 1..Len(frames[1].Fields) |-> frames[1].Fields[i].Name] = ColumnNames
        /\ \A i \in 1..Len(ColumnNames) : Len(frames[1].Fields[i].vals) = Len(ret.issues)
        /\ \A n \in 1..Len(ret.issues) :
            LET v == ret.issues[n]
            IN  /\ Column("title")[n] = v.Title
                /\ Column("author")[n] = v.Author.User.Login
                /\ Column("author_company")[n] = v.Author.User.Company
                /\ Column("repo")[n] = v.Repository.Owner.Login \o "/" \o v.Repository.Name
                /\ Column("number")[n] = v.Number
                /\ Column("closed")[n] = v.Closed

C9_Witness ==
    /\ pc = "framed"
    /\ Len(ret.issues) = 2
    /\ Column("number") = <<2, 1>>
    /\ Column("repo") = <<"acme/widgets", "grafana/grafana">>

\* C10 as stated: the error returned has the transport's error as its cause
\* and says which cursor was in flight.
C10_ErrorNamesCursor ==
    (Failed /\ Returned) =>
        /\ Cause(ret.err) = Last(responses).err
        /\ ~Last(calls).cursor.isNil =>
                Occurrences(Last(calls).cursor.val, ErrorString(ret.err)) > 0

\* C10, amended: the error returned is the transport's error with a stack
\* recorded and nothing else: the transport's error is its cause and its text
\* is the transport error's text, which names no page and no cursor.
C10_ErrorWrapsCause ==
    (Failed /\ Returned) =>
        /\ ret.err.kind = "withStack"
        /\ ret.err.cause = Last(responses).err
        /\ Cause(ret.err) = Last(responses).err
        /\ ErrorString(ret.err) = Last(responses).err.msg

C10_Witness ==
    /\ Failed
    /\ Returned
    /\ Len(calls) = 2
    /\ ~Last(calls).cursor.isNil
    /\ ErrorString(ret.err) = "API rate limit exceeded"

\* the requests of the invocation that have not been answered yet
Outstanding == Len(calls) - Len(responses)

\* C12: at most one request is outstanding at any time, and a step that issues
\* a request issues exactly one, after every earlier request was answered and
\* with the items of all the answers already in the accumulation list.
C12_StrictlySequential ==
    /\ [](Outstanding \in {0, 1})
    /\ [](pc = "query" => Outstanding = 1 /\ issues = AllItems(responses))
    /\ [][Len(calls') > Len(calls) =>
            /\ Len(calls') = Len(calls) + 1
            /\ Len(responses') = Len(calls)
            /\ \A k \in 1..Len(responses') : responses'[k].err.isNil
            /\ issues' = AllItems(responses')]_vars

C12_Witness ==
    /\ pc = "query"
    /\ Len(calls) = 3
    /\ Len(responses) = 2
    /\ Len(responses[2].Search.Nodes) = 3
    /\ Len(issues) >= 4

\* a call with its cursor left out
WithoutCursor(call) == [call EXCEPT !.cursor = NilCursor]

\* C14: no call is made before the filter is built; every call of the
\* invocation carries that same filter and asks for 100 results; two calls
\* differ in their cursor at most; and while the loop runs a step changes
\* nothing of the variables map but its cursor.
C14_OnlyCursorChanges ==
    /\ [](pc = "start" => Len(calls) = 0)
    /\ [](\A n \in 1..Len(calls) :
            /\ calls[n].query = ExpectedFilter
            /\ calls[n].first = 100
            /\ WithoutCursor(calls[n]) = WithoutCursor(calls[1]))
    /\ [][pc = "query" =>
            /\ variables'.query = variables.query
            /\ variables' = [variables EXCEPT !.cursor = variables'.cursor]]_vars

C14_Witness ==
    /\ Len(calls) = 3
    /\ ~opts.Query.isNil
    /\ calls[1].cursor = NilCursor
    /\ calls[2].cursor # calls[3].cursor
    /\ calls[3].query = calls[1].query

\* the n-th row of the frame: its cell in each column, in column order
RowAt(n) == [i \in 1..Len(frames[1].Fields) |-> frames[1].Fields[i].vals[n]]

\* C15: the closed_at cell is absent exactly when closedAt is the zero
\* instant, whatever the closed flag, and the closed cell is the flag; two
\* issues with the same closedAt get the same closed_at cell, and an issue
\* whose closedAt is the zero instant in some zone gets the very row of the
\* issue that differs from it only in having the zero time as closedAt.
C15_ClosedFlagIndependent ==
    pc = "framed" =>
        \A n \in 1..Len(ret.issues) :
            /\ Column("closed_at")[n].isNil <=> IsZero(ret.issues[n].ClosedAt)
            /\ Column("closed")[n] = ret.issues[n].Closed
            /\ \A m \in 1..Len(ret.issues) :
                /\ ret.issues[m].ClosedAt = ret.issues[n].ClosedAt =>
                        Column("closed_at")[m] = Column("closed_at")[n]
                /\ (/\ IsZero(ret.issues[n].ClosedAt)
                    /\ ret.issues[m] = [ret.issues[n] EXCEPT !.ClosedAt = ZeroTime])
                   => RowAt(m) = RowAt(n)

\* a closed issue without a closed_at cell beside an open one with a cell
C15_Witness ==
    /\ pc = "framed"
    /\ Len(ret.issues) = 2
    /\ Column("closed") = <<TRUE, FALSE>>
    /\ Column("closed_at") = <<NilTime, TimePtr(T2)>>
    /\ ret.issues[1].ClosedAt = ZeroInstantAt(60)

---------------------------------------------------------------------------
(* The invocation against a server of either kind                          *)

InitLoop == InitWith(Invocations, {"finite", "endless"})

SpecLoop == InitLoop /\ [][Next]_vars

\* every response so far is a page with a next page
AllHaveNextPage ==
    \A k \in 1..Len(responses) :
        responses[k].err.isNil /\ responses[k].Search.PageInfo.HasNextPage

\* C13: the invocation has returned exactly when its last call failed or got
\* a page without a next page. Until then, however many pages came and
\* whatever their cursors, one more call is outstanding and the list holds
\* every item received; against a server whose every page has a next page
\* the invocation never returns unless a call fails.
C13_ServerControlledTermination ==
    /\ Returned <=> (Len(responses) > 0 /\ Terminal(Last(responses)))
    /\ (pc = "query" /\ AllHaveNextPage) =>
            /\ Len(calls) = Len(responses) + 1
            /\ Len(issues) = ItemCount(responses)
    /\ (server = "endless" /\ ~ctxDone) => ~Returned /\ AllHaveNextPage

\* three pages with the same endCursor, and a fourth call with it again
C13_Witness ==
    /\ server = "endless"
    /\ pc = "query"
    /\ Len(responses) = 3
    /\ \A k \in 1..3 :
        /\ responses[k].Search.PageInfo.EndCursor = responses[1].Search.PageInfo.EndCursor
        /\ Len(responses[k].Search.Nodes) = 3
    /\ Len(calls) = 4
    /\ calls[4].cursor = calls[2].cursor
    /\ Len(issues) = 9

---------------------------------------------------------------------------
(* Two invocations of GetIssuesInRange run concurrently                    *)

\* the most pages the server reports to a concurrent invocation
MaxConcCalls == 2

\* the arguments of each concurrent invocation
ConcInvocations ==
    << Invocation(MkOpts("grafana", "grafana", "IssueTimeCreated", NilString), T1, T2),
       Invocation(MkOpts("acme", "widgets", "IssueTimeClosed", StringPtr("label:bug")), T1, T3) >>

ConcNodeLists == { << IssueNode(Issue1) >>, << IssueNode(Issue2), IssueNode(Issue1) >> }

\* client.Query for the n-th call of a concurrent invocation
ConcClientQuery(n) ==
    { [err |-> NoError,
       Search |-> [Nodes |-> ns, PageInfo |-> [HasNextPage |-> h, EndCursor |-> c]]] :
        ns \in ConcNodeLists, h \in {b \in BOOLEAN : b => n < MaxConcCalls}, c \in EndCursors }
    \cup {[err |-> TransportError("API rate limit exceeded")]}

\* where the variables map and the issues list of invocation p live: they are
\* declared inside the function, so in p's own activation
ActivationShared(p) == 1

Activation(p) == p

\* invocation p up to its first client.Query call
ConcStart(p) ==
    /\ inv[p].pc = "start"
    /\ LET in == ConcInvocations[p]
       IN  locals' = [locals EXCEPT ![Activation(p)] =
                        [variables |-> InitialVariables(in.opts, in.from, in.to),
                         issues |-> <<>>]]
    /\ inv' = [inv EXCEPT ![p] =
                [@ EXCEPT !.pc = "query",
                          !.calls = Append(@, QueryCall(locals'[Activation(p)].variables))]]
    /\ UNCHANGED <<pc, opts, from, to, ctxDone, variables, issues, calls, responses, ret, frames,
                   server>>

\* client.Query returns an error to invocation p
ConcQueryFails(p) ==
    /\ inv[p].pc = "query"
    /\ \E r \in ConcClientQuery(Len(inv[p].calls)) :
        /\ ~r.err.isNil
        /\ inv' = [inv EXCEPT ![p] =
                    [@ EXCEPT !.pc = "returned",
                              !.responses = Append(@, r),
                              !.ret = ReturnOnError(locals[Activation(p)].issues, r.err)]]
    /\ UNCHANGED <<pc, opts, from, to, ctxDone, variables, issues, calls, responses, ret, frames,
                   server, locals>>

\* client.Query returns a page to invocation p
ConcQuerySucceeds(p) ==
    /\ inv[p].pc = "query"
    /\ \E r \in ConcClientQuery(Len(inv[p].calls)) :
        /\ r.err.isNil
        /\ LET q == DecodeQuery(r)
               is == PageIssues(q.Search.Nodes)
               acc == AppendIssues(locals[Activation(p)].issues, is)
               v == SetCursor(locals[Activation(p)].variables, q.Search.PageInfo)
           IN IF LoopEnds(q.Search.PageInfo)
              THEN /\ locals' = [locals EXCEPT ![Activation(p)].issues = acc]
                   /\ inv' = [inv EXCEPT ![p] =
                                [@ EXCEPT !.pc = "returned",
                                          !.responses = Append(@, r),
                                          !.ret = ReturnIssues(acc)]]
              ELSE /\ locals' = [locals EXCEPT ![Activation(p)] =
                                    [variables |-> v, issues |-> acc]]
                   /\ inv' = [inv EXCEPT ![p] =
                                [@ EXCEPT !.responses = Append(@, r),
                                          !.calls = Append(@, QueryCall(v))]]
    /\ UNCHANGED <<pc, opts, from, to, ctxDone, variables, issues, calls, responses, ret, frames,
                   server>>

NextConc == \E p \in Procs : ConcStart(p) \/ ConcQueryFails(p) \/ ConcQuerySucceeds(p)

SpecConc == Init /\ [][NextConc]_vars

\* what an invocation alone returns after the responses rs
SoloResult(rs) ==
    IF ~Last(rs).err.isNil
    THEN [issues |-> <<>>, err |-> WithStack(Last(rs).err)]
    ELSE [issues |-> AllItems(rs), err |-> NoError]

\* what an invocation alone holds in its variables map while its call after
\* the pages rs is outstanding
SoloVariables(in, rs) ==
    [query |-> Join(Search(in.opts, in.from, in.to), " "),
     cursor |-> IF Len(rs) = 0 THEN NilCursor ELSE Cursor(Last(rs).Search.PageInfo.EndCursor)]

\* C11: under every interleaving, each concurrent invocation sends its own
\* filter and the cursors of its own responses, holds in its list the items
\* of its own pages only, and returns what it would return alone on its
\* responses; and a step in which an invocation does not move leaves that
\* invocation's variables map and list as they were.
C11_NoSharedState ==
    /\ [](\A p \in Procs :
            LET s == inv[p]
                in == ConcInvocations[p]
            IN  /\ s.pc = "start" => locals[p] = NoLocals
                /\ \A n \in 1..Len(s.calls) :
                    /\ s.calls[n].query = Join(Search(in.opts, in.from, in.to), " ")
                    /\ s.calls[n].cursor =
                        SoloVariables(in, SubSeq(s.responses, 1, n - 1)).cursor
                /\ s.pc = "query" =>
                    /\ locals[p].variables = SoloVariables(in, s.responses)
                    /\ locals[p].issues = AllItems(s.responses)
                /\ s.pc = "returned" => s.ret = SoloResult(s.responses))
    /\ [][\A p \in Procs : inv'[p] = inv[p] => locals'[p] = locals[p]]_vars

\* both invocations are in their second call, after different first pages
C11_Witness ==
    /\ \A p \in Procs : inv[p].pc = "query" /\ Len(inv[p].calls) = 2
    /\ inv[1].calls[2].cursor # inv[2].calls[2].cursor
    /\ locals[1].issues # locals[2].issues
    /\ locals[1].variables.query # locals[2].variables.query

=============================================================================
